---- MODULE Spec2Model ----
(***************************************************************************)
(* DesktopFix INIT (src/desktopfix.c): the tail patches of FillCRgn and    *)
(* EraseRect, their guard, the two pattern-tile renderers, the cached      *)
(* screen parameters and the installation of the patches.                  *)
(*                                                                         *)
(* The host is single-threaded: one call stack.  The saved original trap   *)
(* is host code; while it runs it may call either trap again (a nested     *)
(* call).  Handles are modelled by their state byte, the frame buffer by   *)
(* an array of 32-bit words addressed as the code addresses it.            *)
(***************************************************************************)
EXTENDS Integers, Sequences, FiniteSets, TLC

VARIABLES
    startPc,          \* position of _start
    trapTable,        \* the tool trap table: selector -> routine
    gOldFillCRgn,     \* saved original trap addresses
    gOldEraseRect,
    gInPatch,         \* recursion guard
    gScreenBase,      \* cached screen pixmap parameters
    gScreenRowBytes,
    gScreenWidth,
    gScreenHeight,
    gScreenReady,
    device,           \* what GetMainDevice reports now
    hstate,           \* handle -> state byte (HGetState / HSetState)
    fb,               \* video memory: word index -> 32-bit pixel
    stack,            \* the intercepted calls in progress, outermost first
    last,             \* the frame of the call that returned last
    everUnavailable   \* some call has seen EnsureScreenInfo return false

vars == <<startPc, trapTable, gOldFillCRgn, gOldEraseRect, gInPatch,
          gScreenBase, gScreenRowBytes, gScreenWidth, gScreenHeight,
          gScreenReady, device, hstate, fb, stack, last, everUnavailable>>

----------------------------------------------------------------------------
(* Bounds of the model *)

\* deepest nesting of intercepted calls (frames on the stack)
MaxDepth == 3
\* LM_MBarHeight, the menu-bar height the host keeps at 0x0BAA
MBarHeight == 1

(* Program constants *)
kFillCRgnTrap == 43538
kEraseRectTrap == 43171
MinRgnSize == 4
MinRectSize == 2
MaxSize == 250
RequiredDepth == 32
TileDepth == 8
ColorPatType == 1
RowBytesMask == 16383
gestalt32BitQD == 512

NULL == "NULL"

----------------------------------------------------------------------------
(* C integer conversions *)

\* (short) of an int: two's complement, 16 bits
ToShort(v) == ((v + 32768) % 65536) - 32768

\* v & 0x3FFF of a sign-extended short
MaskRowBytes(v) == v % (RowBytesMask + 1)

\* C's % truncates toward zero
CRem(a, b) == IF a >= 0 THEN a % b ELSE -((-a) % b)

RECURSIVE BitOr(_, _)
BitOr(a, b) ==
    IF a = 0 THEN b
    ELSE IF b = 0 THEN a
    ELSE (IF (a % 2 = 1) \/ (b % 2 = 1) THEN 1 ELSE 0)
         + 2 * BitOr(a \div 2, b \div 2)

\* (unsigned long) v << n, for the operands the code shifts: v < 2^8 and
\* n <= 16, so no bit leaves the 32-bit word
ShiftLeft(v, n) == v * (2 ^ n)

\* v >> n of a non-negative int
ShiftRight(v, n) == v \div (2 ^ n)

----------------------------------------------------------------------------
(* Rectangles and regions (QuickDraw) *)

MkRect(l, t, r, b) == [left |-> l, top |-> t, right |-> r, bottom |-> b]

\* A region handle: nil (NULL or an empty master pointer), or a bounding box
\* and a shape that decides point membership.  "rect" is the whole box, "L"
\* the box without its upper right quarter (the box stays the tight bound).
MkRgn(box, shape) == [nil |-> FALSE, rgnBBox |-> box, shape |-> shape]
NilRgn == [nil |-> TRUE, rgnBBox |-> MkRect(0, 0, 0, 0), shape |-> "rect"]

PtInRect(x, y, r) ==
    r.left <= x /\ x < r.right /\ r.top <= y /\ y < r.bottom

PtInRgn(x, y, rgn) ==
    /\ ~rgn.nil
    /\ PtInRect(x, y, rgn.rgnBBox)
    /\ \/ rgn.shape = "rect"
       \/ ~(/\ x >= rgn.rgnBBox.left
                 + ((rgn.rgnBBox.right - rgn.rgnBBox.left) \div 2)
            /\ y < rgn.rgnBBox.top
                 + ((rgn.rgnBBox.bottom - rgn.rgnBBox.top) \div 2))

Max(a, b) == IF a >= b THEN a ELSE b
Min(a, b) == IF a <= b THEN a ELSE b

\* RectInRgn: the rectangle and the region share a pixel
RectInRgn(r, rgn) ==
    LET l == Max(r.left, rgn.rgnBBox.left)
        t == Max(r.top, rgn.rgnBBox.top)
        rr == Min(r.right, rgn.rgnBBox.right)
        b == Min(r.bottom, rgn.rgnBBox.bottom)
    IN  /\ ~rgn.nil
        /\ l < rr /\ t < b
        /\ \/ rgn.shape = "rect"
           \/ \E x \in l..(rr - 1), y \in t..(b - 1) : PtInRgn(x, y, rgn)

----------------------------------------------------------------------------
(* Pixel patterns (PixPat) and their handles *)

RGB(r, g, b) == [red |-> r, green |-> g, blue |-> b]

\* The colour table of every pattern of the model: ctTable[0..3].
Palette ==
    << RGB(65535, 0, 0), RGB(4660, 43981, 255),
       RGB(255, 256, 65280), RGB(65535, 65535, 65535) >>

MkPat(present, type, hasMap, hasData, box, rb, depth, hasTab, bytes) ==
    [present |-> present, patType |-> type, hasMap |-> hasMap,
     hasData |-> hasData, bounds |-> box, rowBytes |-> rb,
     pixelSize |-> depth, hasTable |-> hasTab, data |-> bytes,
     ctTable |-> Palette]

\* a 2 x 2 tile, 4 bytes a row (two of them padding), rowBytes flag bit set
TileBytes == <<0, 1, 3, 3, 2, 0, 3, 3>>
\* a 3 x 1 tile whose bounds do not start at the origin
StripBytes == <<1, 2, 0, 3>>
\* a 4 x 4 tile, every sample index 0 (pure red in the colour table)
RedBytes == <<0, 0, 0, 0, 0, 0, 0, 0, 0, 0, 0, 0, 0, 0, 0, 0>>

PixPatOf(id) ==
    CASE id = "tile"    -> MkPat(TRUE, 1, TRUE, TRUE, MkRect(0, 0, 2, 2),
                                 4 - 32768, 8, TRUE, TileBytes)
      [] id = "strip"   -> MkPat(TRUE, 1, TRUE, TRUE, MkRect(5, 7, 8, 8),
                                 4 - 32768, 8, TRUE, StripBytes)
      [] id = "red"     -> MkPat(TRUE, 1, TRUE, TRUE, MkRect(0, 0, 4, 4),
                                 4 - 32768, 8, TRUE, RedBytes)
      [] id = "empty"   -> MkPat(FALSE, 1, TRUE, TRUE, MkRect(0, 0, 2, 2),
                                 4 - 32768, 8, TRUE, TileBytes)
      [] id = "type0"   -> MkPat(TRUE, 0, TRUE, TRUE, MkRect(0, 0, 2, 2),
                                 4 - 32768, 8, TRUE, TileBytes)
      [] id = "noMap"   -> MkPat(TRUE, 1, FALSE, TRUE, MkRect(0, 0, 2, 2),
                                 4 - 32768, 8, TRUE, TileBytes)
      [] id = "noData"  -> MkPat(TRUE, 1, TRUE, FALSE, MkRect(0, 0, 2, 2),
                                 4 - 32768, 8, TRUE, TileBytes)
      [] id = "zeroW"   -> MkPat(TRUE, 1, TRUE, TRUE, MkRect(2, 0, 2, 2),
                                 4 - 32768, 8, TRUE, TileBytes)
      [] id = "negH"    -> MkPat(TRUE, 1, TRUE, TRUE, MkRect(0, 2, 2, 1),
                                 4 - 32768, 8, TRUE, TileBytes)
      [] id = "depth4"  -> MkPat(TRUE, 1, TRUE, TRUE, MkRect(0, 0, 2, 2),
                                 4 - 32768, 4, TRUE, TileBytes)
      [] id = "noTable" -> MkPat(TRUE, 1, TRUE, TRUE, MkRect(0, 0, 2, 2),
                                 4 - 32768, 8, FALSE, TileBytes)

PatIds ==
    {"tile", "strip", "red", "empty", "type0", "noMap", "noData", "zeroW", "negH",
     "depth4", "noTable"}

\* a PixPatHandle argument: a pattern or NULL
PatArgs == PatIds \cup {NULL}

HandleKinds == {"patMap", "patData", "pmTable"}
Handles == PatIds \X HandleKinds

\* Handle state byte: bit 7 locked, bit 6 purgeable, bit 5 resource.
LockBit == 2 ^ 7
PurgeBit == 2 ^ 6
ResourceBit == 2 ^ 5

HGetState(hs, h) == hs[h]
HLock(hs, h) ==
    [hs EXCEPT ![h] = IF hs[h] >= LockBit THEN hs[h] ELSE hs[h] + LockBit]
HSetState(hs, h, s) == [hs EXCEPT ![h] = s]

\* The states the host left the handles in: every mix of locked and
\* purgeable occurs among the handles a renderer can lock.
InitHState ==
    [h \in Handles |->
        LET k == h[2]
            odd == h[1] \in {"strip", "zeroW", "noTable"}
        IN  CASE k = "patMap"  -> IF odd THEN LockBit ELSE 0
              [] k = "patData" -> IF odd THEN 0 ELSE PurgeBit
              [] k = "pmTable" -> IF odd THEN PurgeBit + ResourceBit
                                        ELSE LockBit + PurgeBit]

----------------------------------------------------------------------------
(* The main graphics device and video memory *)

VramBase == 2 ^ 12
VramWords == 0..(5 * (MBarHeight + 5) - 1)
\* two pixel values no conversion can produce (their top byte is not zero):
\* what the surface holds before any drawing, and what the original draws
Blank == 2 ^ 24
Garbage == 2 ^ 25
BlankFb == [i \in VramWords |-> Blank]

MkDev(present, hasPMap, depth, rb, w, h) ==
    [present |-> present, hasPMap |-> hasPMap, pixelSize |-> depth,
     baseAddr |-> VramBase, rowBytes |-> rb,
     bounds |-> MkRect(0, 0, w, h)]

NoDevice == MkDev(FALSE, FALSE, 0, 0, 0, 0)
NoPixMap == MkDev(TRUE, FALSE, 0, 0, 0, 0)
Dev8     == MkDev(TRUE, TRUE, 8, 4 - 32768, 3, 3)
\* a surface that holds a whole 4 x 4 area below the menu bar
Dev32    == MkDev(TRUE, TRUE, 32, 20 - 32768, 5, MBarHeight + 5)
Dev32b   == MkDev(TRUE, TRUE, 32, 8 - 32768, 2, 4)

Devices == {NoDevice, NoPixMap, Dev8, Dev32, Dev32b}

\* word of video memory that holds pixel (x, y) of a 32-bit surface
WordOf(base, rowBytes, x, y) == ((base - VramBase) + y * rowBytes) \div 4 + x

----------------------------------------------------------------------------
(* Host state around a call: the current port and the window list *)

WMgrCPort == "WMgrCPort"
Ports == {WMgrCPort, "otherPort"}

MkWin(hasStruc, box) == [hasStruc |-> hasStruc, strucRgn |-> MkRgn(box, "rect")]

\* a window to the right of the first four columns, a window without a
\* structure region, and the desktop window, which covers everything
WinA == MkWin(TRUE, MkRect(4, 0, 8, 8))
WinBare == MkWin(FALSE, MkRect(0, 0, 0, 0))
Desk == MkWin(TRUE, MkRect(0, 0, 8, 8))

WinLists ==
    { <<>>, <<Desk>>, <<WinA, Desk>>, <<WinBare, WinA, Desk>>, <<Desk, WinA>> }

----------------------------------------------------------------------------
(* The calls the host makes *)

Dims == {1, 2, 3, 4, 250, 251}

GoodBox == MkRect(0, MBarHeight, 4, MBarHeight + 4)
HighBox == MkRect(0, MBarHeight - 1, 4, MBarHeight + 3)
ShiftedBox == MkRect(2, MBarHeight, 6, MBarHeight + 4)
WideBox == MkRect(0, MBarHeight, 300, MBarHeight + 4)
NegBox == MkRect(-1, MBarHeight, 5, MBarHeight + 5)
SizeBoxes == { MkRect(0, MBarHeight, w, MBarHeight + h) : w \in Dims, h \in Dims }

MkCall(fn, area, pp, port, wins, bk) ==
    [fn |-> fn, area |-> area, pp |-> pp, port |-> port, wins |-> wins,
     bk |-> bk]

\* every size of the area, everything else in favour of a repaint
SizeCalls ==
    { MkCall("FillCRgn", MkRgn(b, "rect"), "tile", WMgrCPort, <<>>, NULL)
        : b \in SizeBoxes }
    \cup
    { MkCall("EraseRect", MkRgn(b, "rect"), NULL, WMgrCPort, <<>>, "tile")
        : b \in SizeBoxes }

\* every port and window list, areas in and out of place, no area at all
ContextBoxes == {GoodBox, HighBox, ShiftedBox, WideBox}
ContextCalls ==
    { MkCall("FillCRgn", a, "tile", p, w, NULL)
        : a \in { MkRgn(b, "L") : b \in ContextBoxes } \cup {NilRgn},
          p \in Ports, w \in WinLists }
    \cup
    { MkCall("EraseRect", a, NULL, p, w, "tile")
        : a \in { MkRgn(b, "rect") : b \in ContextBoxes } \cup {NilRgn},
          p \in Ports, w \in WinLists }

\* every pattern, on areas the guard lets through
RenderCalls ==
    { MkCall("FillCRgn", MkRgn(b, sh), pp, WMgrCPort, <<Desk>>, NULL)
        : b \in {GoodBox, NegBox}, sh \in {"rect", "L"}, pp \in PatArgs }
    \cup
    { MkCall("EraseRect", MkRgn(b, "rect"), NULL, WMgrCPort, <<Desk>>, bk)
        : b \in {GoodBox, NegBox}, bk \in PatArgs }

HostCalls == SizeCalls \cup ContextCalls \cup RenderCalls

\* The call the original trap makes from inside: either trap, on the area
\* and the pattern it was given itself.
InnerCall(f, fn) ==
    MkCall(fn,
           IF fn = "EraseRect" /\ ~f.area.nil
               THEN MkRgn(f.area.rgnBBox, "rect") ELSE f.area,
           IF fn = "FillCRgn"
               THEN (IF f.fn = "FillCRgn" THEN f.pp ELSE f.bk) ELSE NULL,
           f.port, f.wins, f.bk)

GestaltResults ==
    { [err |-> TRUE, version |-> 0], [err |-> FALSE, version |-> 256],
      [err |-> FALSE, version |-> gestalt32BitQD],
      [err |-> FALSE, version |-> gestalt32BitQD + 1] }

----------------------------------------------------------------------------
(* Frames of the intercepted calls *)

NoSaved == [patMap |-> 0, patData |-> 0, pmTable |-> 0]

\* A frame: the call's arguments and host state, where the call stands, and
\* what it has done so far (the original it invoked and with what, guard
\* evaluations, renderer invocations, the renderer's saved handle states,
\* the handle states and the surface it started from, the handles it
\* locked, the pixels it wrote, and, in the outermost frame, whether a
\* nested call has already returned).
MkFrame(c, pc, callee, args) ==
    [fn |-> c.fn, area |-> c.area, pp |-> c.pp, port |-> c.port,
     wins |-> c.wins, bk |-> c.bk,
     pc |-> pc, callee |-> callee, origCalls |-> 1, origArgs |-> args,
     origDone |-> FALSE, guardEvals |-> 0, renders |-> 0, rpat |-> NULL,
     saved |-> NoSaved, hEntry |-> hstate, taken |-> {}, written |-> {},
     fbOrig |-> BlankFb, innerReturned |-> FALSE]

\* `last` is empty until a top-level call has returned
NoCall == <<>>

Top == stack[Len(stack)]
Pop == SubSeq(stack, 1, Len(stack) - 1)
SetTop(f) == [stack EXCEPT ![Len(stack)] = f]

cacheVars == <<gScreenBase, gScreenRowBytes, gScreenWidth, gScreenHeight,
               gScreenReady>>
startVars == <<startPc, trapTable, gOldFillCRgn, gOldEraseRect>>

----------------------------------------------------------------------------
(* _start: install the patches *)

Selector(fn) == IF fn = "FillCRgn" THEN kFillCRgnTrap ELSE kEraseRectTrap
ROMRoutines == {"ROM_FillCRgn", "ROM_EraseRect"}
PatchOf(fn) == IF fn = "FillCRgn" THEN "PatchedFillCRgn" ELSE "PatchedEraseRect"

\* lines 441-445: bail unless Gestalt reports 32-bit QuickDraw
GestaltOK(g) == ~g.err /\ ~(g.version < gestalt32BitQD)

StartGestalt ==
    /\ startPc = "gestalt"
    /\ \E g \in GestaltResults :
          startPc' = IF GestaltOK(g) THEN "getFill" ELSE "bailed"
    /\ UNCHANGED <<trapTable, gOldFillCRgn, gOldEraseRect, gInPatch,
                   cacheVars, device, hstate, fb, stack, last,
                   everUnavailable>>

\* an installation that does not save the entry it is about to replace
StartGetTrap_NothingSaved ==
    /\ startPc \in {"getFill", "getErase"}
    /\ startPc' = IF startPc = "getFill" THEN "setFill" ELSE "setErase"
    /\ UNCHANGED <<trapTable, gOldFillCRgn, gOldEraseRect, gInPatch,
                   cacheVars, device, hstate, fb, stack, last,
                   everUnavailable>>

\* lines 447 and 450: GetToolTrapAddress into the saved pointer
StartGetTrap ==
    /\ startPc \in {"getFill", "getErase"}
    /\ IF startPc = "getFill"
          THEN /\ gOldFillCRgn' = trapTable[kFillCRgnTrap]
               /\ startPc' = "setFill"
               /\ UNCHANGED gOldEraseRect
          ELSE /\ gOldEraseRect' = trapTable[kEraseRectTrap]
               /\ startPc' = "setErase"
               /\ UNCHANGED gOldFillCRgn
    /\ UNCHANGED <<trapTable, gInPatch, cacheVars, device, hstate, fb, stack,
                   last, everUnavailable>>

\* lines 448 and 451: SetToolTrapAddress of the patch
StartSetTrap ==
    /\ startPc \in {"setFill", "setErase"}
    /\ IF startPc = "setFill"
          THEN /\ trapTable' = [trapTable EXCEPT
                                  ![kFillCRgnTrap] = "PatchedFillCRgn"]
               /\ startPc' = "getErase"
          ELSE /\ trapTable' = [trapTable EXCEPT
                                  ![kEraseRectTrap] = "PatchedEraseRect"]
               /\ startPc' = "done"
    /\ UNCHANGED <<gOldFillCRgn, gOldEraseRect, gInPatch, cacheVars, device,
                   hstate, fb, stack, last, everUnavailable>>

----------------------------------------------------------------------------
(* The original traps (host code) *)

DeviceIs32 == device.present /\ device.hasPMap /\ device.pixelSize = 32

\* What the original leaves on the surface: its own (possibly corrupted)
\* rendering of the area, on the device as it is now.
ROMPaint(f, area) ==
    IF ~DeviceIs32 \/ area.nil THEN f
    ELSE [i \in VramWords |->
            IF \E x \in 0..(device.bounds.right - 1),
                  y \in 0..(device.bounds.bottom - 1) :
                  /\ PtInRgn(x, y, area)
                  /\ WordOf(device.baseAddr, MaskRowBytes(device.rowBytes),
                            x, y) = i
            THEN Garbage ELSE f[i]]

----------------------------------------------------------------------------
(* EnsureScreenInfo, lines 63-90 *)

CacheNow ==
    [base |-> gScreenBase, rowBytes |-> gScreenRowBytes,
     width |-> gScreenWidth, height |-> gScreenHeight, ready |-> gScreenReady]

\* a cache that remembers a failure and never queries the device again
EnsureScreenInfo_Sticky ==
    IF gScreenReady # 0 THEN [ok |-> TRUE, cache |-> CacheNow]
    ELSE IF everUnavailable THEN [ok |-> FALSE, cache |-> CacheNow]
    ELSE IF ~device.present THEN [ok |-> FALSE, cache |-> CacheNow]
    ELSE IF ~device.hasPMap THEN [ok |-> FALSE, cache |-> CacheNow]
    ELSE IF device.pixelSize # RequiredDepth
        THEN [ok |-> FALSE, cache |-> CacheNow]
    ELSE [ok |-> TRUE,
          cache |-> [base |-> device.baseAddr,
                     rowBytes |-> MaskRowBytes(device.rowBytes),
                     width |-> ToShort(device.bounds.right
                                       - device.bounds.left),
                     height |-> ToShort(device.bounds.bottom
                                        - device.bounds.top),
                     ready |-> 1]]

\* a cache that is filled again from the device at every call
EnsureScreenInfo_Requery ==
    IF ~device.present THEN [ok |-> FALSE, cache |-> CacheNow]
    ELSE IF ~device.hasPMap THEN [ok |-> FALSE, cache |-> CacheNow]
    ELSE IF device.pixelSize # RequiredDepth
        THEN [ok |-> FALSE, cache |-> CacheNow]
    ELSE [ok |-> TRUE,
          cache |-> [base |-> device.baseAddr,
                     rowBytes |-> MaskRowBytes(device.rowBytes),
                     width |-> ToShort(device.bounds.right
                                       - device.bounds.left),
                     height |-> ToShort(device.bounds.bottom
                                        - device.bounds.top),
                     ready |-> 1]]

\* the result and the cache as the call leaves it
EnsureScreenInfo ==
    IF gScreenReady # 0 THEN [ok |-> TRUE, cache |-> CacheNow]
    ELSE IF ~device.present THEN [ok |-> FALSE, cache |-> CacheNow]
    ELSE IF ~device.hasPMap THEN [ok |-> FALSE, cache |-> CacheNow]
    ELSE IF device.pixelSize # RequiredDepth
        THEN [ok |-> FALSE, cache |-> CacheNow]
    ELSE [ok |-> TRUE,
          cache |-> [base |-> device.baseAddr,
                     rowBytes |-> MaskRowBytes(device.rowBytes),
                     width |-> ToShort(device.bounds.right
                                       - device.bounds.left),
                     height |-> ToShort(device.bounds.bottom
                                        - device.bounds.top),
                     ready |-> 1]]

----------------------------------------------------------------------------
(* The guard, lines 306-336, 364-372 and 409-419 *)

IsWMgrDraw(f) == f.port = WMgrCPort

\* a walk that tests the last entry as well
RECURSIVE WindowWalk_TestsLast(_, _, _)
WindowWalk_TestsLast(r, wins, i) ==
    IF i > Len(wins) THEN FALSE
    ELSE IF wins[i].hasStruc /\ RectInRgn(r, wins[i].strucRgn) THEN TRUE
    ELSE WindowWalk_TestsLast(r, wins, i + 1)

\* the walk from LM_WindowList: stop at the entry that has no next window
RECURSIVE WindowWalk(_, _, _)
WindowWalk(r, wins, i) ==
    IF i > Len(wins) THEN FALSE
    ELSE IF i = Len(wins) THEN FALSE
    ELSE IF wins[i].hasStruc /\ RectInRgn(r, wins[i].strucRgn) THEN TRUE
    ELSE WindowWalk(r, wins, i + 1)

IsRectInAnyWindowStruc(r, wins) == WindowWalk(r, wins, 1)

\* a guard that does not look at the port
GuardFillCRgn_AnyPort(f, screenOK) ==
    /\ screenOK
    /\ ~f.area.nil
    /\ LET bbox == f.area.rgnBBox
       IN  /\ (bbox.right - bbox.left) >= MinRgnSize
           /\ (bbox.bottom - bbox.top) >= MinRgnSize
           /\ (bbox.right - bbox.left) <= MaxSize
           /\ (bbox.bottom - bbox.top) <= MaxSize
           /\ bbox.top >= MBarHeight
           /\ ~IsRectInAnyWindowStruc(bbox, f.wins)

GuardFillCRgn(f, screenOK) ==
    /\ screenOK
    /\ ~f.area.nil
    /\ IsWMgrDraw(f)
    /\ LET bbox == f.area.rgnBBox
       IN  /\ (bbox.right - bbox.left) >= MinRgnSize
           /\ (bbox.bottom - bbox.top) >= MinRgnSize
           /\ (bbox.right - bbox.left) <= MaxSize
           /\ (bbox.bottom - bbox.top) <= MaxSize
           /\ bbox.top >= MBarHeight
           /\ ~IsRectInAnyWindowStruc(bbox, f.wins)

\* the rectangle guard with the region form's minimum
GuardEraseRect_RgnMin(f, screenOK) ==
    /\ screenOK
    /\ ~f.area.nil
    /\ IsWMgrDraw(f)
    /\ LET r == f.area.rgnBBox
       IN  /\ (r.right - r.left) >= MinRgnSize
           /\ (r.bottom - r.top) >= MinRgnSize
           /\ (r.right - r.left) <= MaxSize
           /\ (r.bottom - r.top) <= MaxSize
           /\ r.top >= MBarHeight
           /\ ~IsRectInAnyWindowStruc(r, f.wins)

GuardEraseRect(f, screenOK) ==
    /\ screenOK
    /\ ~f.area.nil
    /\ IsWMgrDraw(f)
    /\ LET r == f.area.rgnBBox
       IN  /\ (r.right - r.left) >= MinRectSize
           /\ (r.bottom - r.top) >= MinRectSize
           /\ (r.right - r.left) <= MaxSize
           /\ (r.bottom - r.top) <= MaxSize
           /\ r.top >= MBarHeight
           /\ ~IsRectInAnyWindowStruc(r, f.wins)

\* lines 418-419: the background pattern of WMgrCPort, which is never NULL
\* once the Window Manager runs
HasBkPixPat(f) == f.bk # NULL

----------------------------------------------------------------------------
(* The renderers, lines 100-204 and 210-301 *)

MapH(id) == <<id, "patMap">>
DataH(id) == <<id, "patData">>
TableH(id) == <<id, "pmTable">>

\* handle checks that do not look at the pixel data
PatternUsable_NoDataCheck(id) ==
    /\ id # NULL
    /\ PixPatOf(id).present
    /\ PixPatOf(id).patType = ColorPatType
    /\ PixPatOf(id).hasMap

\* lines 118-128 / 226-235: the checks made before any handle is locked
PatternUsable(id) ==
    /\ id # NULL
    /\ PixPatOf(id).present
    /\ PixPatOf(id).patType = ColorPatType
    /\ PixPatOf(id).hasMap
    /\ PixPatOf(id).hasData

\* lines 131-134 / 237-240
LockMapAndData(hs, id) ==
    LET s1 == HGetState(hs, MapH(id))
        h1 == HLock(hs, MapH(id))
        s2 == HGetState(h1, DataH(id))
        h2 == HLock(h1, DataH(id))
    IN  [hs |-> h2, saved |-> [patMap |-> s1, patData |-> s2, pmTable |-> 0]]

TileW(pat) == ToShort(pat.bounds.right - pat.bounds.left)
TileH(pat) == ToShort(pat.bounds.bottom - pat.bounds.top)
TileRowBytes(pat) == MaskRowBytes(pat.rowBytes)

\* a tile check that accepts every depth
TileOK_AnyDepth(pat) == ~(TileW(pat) <= 0 \/ TileH(pat) <= 0)

\* line 144 / 250 and 151 / 257
TileOK(pat) == ~(TileW(pat) <= 0 \/ TileH(pat) <= 0 \/ pat.pixelSize # TileDepth)
TableOK(pat) == pat.hasTable

\* an early exit that restores the map and forgets the data
RestoreMapOnly(hs, id, saved) == HSetState(hs, MapH(id), saved.patMap)

\* lines 145-146, 152-153 / 251-252, 258-259
RestoreMapAndData(hs, id, saved) ==
    HSetState(HSetState(hs, MapH(id), saved.patMap), DataH(id), saved.patData)

\* lines 157-158 / 263-264
LockTable(hs, id, saved) ==
    [hs |-> HLock(hs, TableH(id)),
     saved |-> [saved EXCEPT !.pmTable = HGetState(hs, TableH(id))]]

\* lines 201-203 / 298-300
RestoreAll(hs, id, saved) ==
    HSetState(HSetState(HSetState(hs, TableH(id), saved.pmTable),
                        MapH(id), saved.patMap),
              DataH(id), saved.patData)

\* a clip that leaves a negative left edge as it is
ClipToScreen_NoLeftClamp(box) ==
    [left |-> box.left,
     top |-> IF box.top < 0 THEN 0 ELSE box.top,
     right |-> IF box.right > gScreenWidth THEN gScreenWidth ELSE box.right,
     bottom |-> IF box.bottom > gScreenHeight THEN gScreenHeight
                ELSE box.bottom]

\* lines 162-170 / 267-275
ClipToScreen(box) ==
    [left |-> IF box.left < 0 THEN 0 ELSE box.left,
     top |-> IF box.top < 0 THEN 0 ELSE box.top,
     right |-> IF box.right > gScreenWidth THEN gScreenWidth ELSE box.right,
     bottom |-> IF box.bottom > gScreenHeight THEN gScreenHeight
                ELSE box.bottom]

\* lines 176-177, 182-183 / 280-281, 284-285
TileCoord(c, size) ==
    LET t == CRem(c, size) IN IF t < 0 THEN t + size ELSE t

\* rows of the tile taken to be tileW bytes apart
PixVal_PackedRows(pat, x, y) ==
    pat.data[TileCoord(y, TileH(pat)) * TileW(pat)
             + TileCoord(x, TileW(pat)) + 1]

\* line 186 / 287: the byte of the tile for surface pixel (x, y)
PixVal(pat, x, y) ==
    pat.data[TileCoord(y, TileH(pat)) * TileRowBytes(pat)
             + TileCoord(x, TileW(pat)) + 1]

\* the low byte of each channel in place of the high byte
Pixel32_LowBytes(cs) ==
    BitOr(BitOr(ShiftLeft(cs.red % 256, 16), ShiftLeft(cs.green % 256, 8)),
          cs.blue % 256)

\* lines 190-192 / 289-291
Pixel32(cs) ==
    BitOr(BitOr(ShiftLeft(ShiftRight(cs.red, 8), 16),
                ShiftLeft(ShiftRight(cs.green, 8), 8)),
          ShiftRight(cs.blue, 8))

\* the sample written as it is, without the colour table
TilePixel_RawIndex(pat, x, y) == PixVal(pat, x, y)

\* lines 186-192 / 287-291
TilePixel(pat, x, y) == Pixel32(pat.ctTable[PixVal(pat, x, y) + 1])

\* the region form without the membership test
RgnPixels_WholeBox(rgn) ==
    LET c == ClipToScreen(rgn.rgnBBox)
    IN  IF c.left < c.right /\ c.top < c.bottom
        THEN (c.left..(c.right - 1)) \X (c.top..(c.bottom - 1))
        ELSE {}

\* lines 172-181: the pixels RenderPatternInRgn writes
RgnPixels(rgn) ==
    LET c == ClipToScreen(rgn.rgnBBox)
    IN  IF c.left < c.right /\ c.top < c.bottom
        THEN { p \in (c.left..(c.right - 1)) \X (c.top..(c.bottom - 1)) :
                   PtInRgn(p[1], p[2], rgn) }
        ELSE {}

\* lines 277-283: the pixels RenderPatternInRect writes
RectPixels(r) ==
    LET c == ClipToScreen(r)
    IN  IF c.left < c.right /\ c.top < c.bottom
        THEN (c.left..(c.right - 1)) \X (c.top..(c.bottom - 1))
        ELSE {}

\* lines 174, 194 / 279, 293: rowPtr[x] = pixel32 for every pixel of `pix`
WritePixels(f, pat, pix) ==
    [i \in VramWords |->
        IF \E p \in pix :
              WordOf(gScreenBase, gScreenRowBytes, p[1], p[2]) = i
        THEN LET p == CHOOSE q \in pix :
                        WordOf(gScreenBase, gScreenRowBytes, q[1], q[2]) = i
             IN  TilePixel(pat, p[1], p[2])
        ELSE f[i]]

----------------------------------------------------------------------------
(* PatchedFillCRgn, lines 349-380, and PatchedEraseRect, lines 392-426 *)

Fns == {"FillCRgn", "EraseRect"}

SavedOriginal(fn) == IF fn = "FillCRgn" THEN gOldFillCRgn ELSE gOldEraseRect

\* every call takes the full path, nested or not
EntryPc_AlwaysFull(flag) == "orig"

\* an entry that leaves the flag as it finds it
EntryFlag_NotSet(flag) == flag

\* lines 353-358 / 398-403: the path taken and the flag it leaves
EntryPc(flag) == IF flag # 0 THEN "origN" ELSE "orig"
EntryFlag(flag) == IF flag # 0 THEN flag ELSE 1

\* the original given the bounding box in place of the region
OrigArgs_BoxOnly(c) == [area |-> MkRgn(c.area.rgnBBox, "rect"), pp |-> c.pp]

\* lines 354, 361 / 399, 406: what the original is given
OrigArgs(c) == [area |-> c.area, pp |-> c.pp]

\* a re-entrant path that clears the flag as the top-level path does
FlagAtInnerReturn_Clears(flag) == 0

\* line 355 / 400: the re-entrant path returns at once
FlagAtInnerReturn(flag) == flag

\* an exit that leaves the flag as it is
FlagAtExit_Keeps(flag) == flag

\* line 379 / 425
FlagAtExit(flag) == 0

Enter(c) ==
    MkFrame(c, EntryPc(gInPatch), SavedOriginal(c.fn), OrigArgs(c))

\* The host calls a patched trap from outside any intercepted call, with
\* one of `calls`.
HostCallFrom(calls) ==
    /\ startPc \in {"done", "bailed"}
    /\ stack = <<>>
    /\ last = NoCall
    /\ \E c \in calls :
          /\ trapTable[Selector(c.fn)] = PatchOf(c.fn)
          /\ stack' = <<Enter(c)>>
          /\ gInPatch' = EntryFlag(gInPatch)
    /\ UNCHANGED <<startVars, cacheVars, device, hstate, fb, last,
                   everUnavailable>>

HostCall == HostCallFrom(HostCalls)

\* The host calls a trap that was left unpatched: the original runs alone.
HostCallROM ==
    /\ startPc \in {"done", "bailed"}
    /\ stack = <<>>
    /\ last = NoCall
    /\ \E c \in HostCalls :
          /\ trapTable[Selector(c.fn)] \in ROMRoutines
          /\ fb' = ROMPaint(fb, c.area)
          /\ last' = <<[MkFrame(c, "rom", trapTable[Selector(c.fn)],
                                OrigArgs(c))
                           EXCEPT !.origDone = TRUE, !.fbOrig = fb']>>
    /\ UNCHANGED <<startVars, gInPatch, cacheVars, device, hstate, stack,
                   everUnavailable>>

\* The running original calls a patched trap itself.
InnerCallStep ==
    /\ stack # <<>>
    /\ Top.pc \in {"orig", "origN"}
    /\ Len(stack) < MaxDepth
    /\ \E fn \in Fns :
          /\ trapTable[Selector(fn)] = PatchOf(fn)
          /\ stack' = Append(stack, Enter(InnerCall(Top, fn)))
          /\ gInPatch' = EntryFlag(gInPatch)
    /\ UNCHANGED <<startVars, cacheVars, device, hstate, fb, last,
                   everUnavailable>>

\* The original returns: lines 354-355 / 399-400 on the re-entrant path,
\* lines 361 / 406 otherwise.
OrigReturn ==
    /\ stack # <<>>
    /\ Top.pc \in {"orig", "origN"}
    /\ Top.callee \in ROMRoutines
    /\ fb' = ROMPaint(fb, Top.origArgs.area)
    /\ IF Top.pc = "origN"
          THEN /\ stack' = [Pop EXCEPT ![1].innerReturned = TRUE]
               /\ gInPatch' = FlagAtInnerReturn(gInPatch)
          ELSE /\ stack' = SetTop([Top EXCEPT !.pc = "guard",
                                              !.origDone = TRUE,
                                              !.fbOrig = fb'])
               /\ UNCHANGED gInPatch
    /\ UNCHANGED <<startVars, cacheVars, device, hstate, last,
                   everUnavailable>>

\* lines 364-375 / 409-420: the guard, and the call of the renderer
Guard ==
    /\ stack # <<>>
    /\ Top.pc = "guard"
    /\ LET f == Top
           esi == EnsureScreenInfo
           pass == IF f.fn = "FillCRgn" THEN GuardFillCRgn(f, esi.ok)
                   ELSE GuardEraseRect(f, esi.ok) /\ HasBkPixPat(f)
       IN  /\ gScreenBase' = esi.cache.base
           /\ gScreenRowBytes' = esi.cache.rowBytes
           /\ gScreenWidth' = esi.cache.width
           /\ gScreenHeight' = esi.cache.height
           /\ gScreenReady' = esi.cache.ready
           /\ everUnavailable' = (everUnavailable \/ ~esi.ok)
           /\ stack' = SetTop(
                [f EXCEPT !.guardEvals = @ + 1,
                          !.pc = IF pass THEN "r_begin" ELSE "exit",
                          !.renders = IF pass THEN @ + 1 ELSE @,
                          !.rpat = IF ~pass THEN NULL
                                   ELSE IF f.fn = "FillCRgn" THEN f.pp
                                   ELSE f.bk,
                          !.hEntry = hstate])
    /\ UNCHANGED <<startVars, gInPatch, device, hstate, fb, last>>

\* lines 118-134 / 226-240: validate the pattern, lock its map and data
RenderBegin ==
    /\ stack # <<>>
    /\ Top.pc = "r_begin"
    /\ LET f == Top
       IN  IF ~PatternUsable(f.rpat)
           THEN /\ stack' = SetTop([f EXCEPT !.pc = "exit"])
                /\ UNCHANGED hstate
           ELSE LET l == LockMapAndData(hstate, f.rpat)
                IN  /\ hstate' = l.hs
                    /\ stack' = SetTop(
                         [f EXCEPT !.pc = "r_tile", !.saved = l.saved,
                                   !.taken = {MapH(f.rpat), DataH(f.rpat)}])
    /\ UNCHANGED <<startVars, gInPatch, cacheVars, device, fb, last,
                   everUnavailable>>

\* lines 136-158 / 242-264: check the tile and its colour table, lock the table
RenderTile ==
    /\ stack # <<>>
    /\ Top.pc = "r_tile"
    /\ LET f == Top
           pat == PixPatOf(f.rpat)
       IN  IF ~TileOK(pat) \/ ~TableOK(pat)
           THEN /\ hstate' = RestoreMapAndData(hstate, f.rpat, f.saved)
                /\ stack' = SetTop([f EXCEPT !.pc = "exit"])
           ELSE LET l == LockTable(hstate, f.rpat, f.saved)
                IN  /\ hstate' = l.hs
                    /\ stack' = SetTop(
                         [f EXCEPT !.pc = "r_draw", !.saved = l.saved,
                                   !.taken = @ \cup {TableH(f.rpat)}])
    /\ UNCHANGED <<startVars, gInPatch, cacheVars, device, fb, last,
                   everUnavailable>>

\* lines 160-198 / 266-296: clip and write the pixels
RenderDraw ==
    /\ stack # <<>>
    /\ Top.pc = "r_draw"
    /\ LET f == Top
           pix == IF f.fn = "FillCRgn" THEN RgnPixels(f.area)
                  ELSE RectPixels(f.area.rgnBBox)
       IN  /\ fb' = WritePixels(fb, PixPatOf(f.rpat), pix)
           /\ stack' = SetTop([f EXCEPT !.pc = "r_restore", !.written = pix])
    /\ UNCHANGED <<startVars, gInPatch, cacheVars, device, hstate, last,
                   everUnavailable>>

\* lines 200-203 / 298-300: restore the handle states
RenderRestore ==
    /\ stack # <<>>
    /\ Top.pc = "r_restore"
    /\ hstate' = RestoreAll(hstate, Top.rpat, Top.saved)
    /\ stack' = SetTop([Top EXCEPT !.pc = "exit"])
    /\ UNCHANGED <<startVars, gInPatch, cacheVars, device, fb, last,
                   everUnavailable>>

\* lines 379-380 / 425-426: clear the flag and return to the host
Exit ==
    /\ stack # <<>>
    /\ Top.pc = "exit"
    /\ gInPatch' = FlagAtExit(gInPatch)
    /\ last' = <<Top>>
    /\ stack' = Pop
    /\ UNCHANGED <<startVars, cacheVars, device, hstate, fb, everUnavailable>>

\* The host goes on after a call has returned: others redraw the surface
\* before the next call, and the record of the call is dropped.
HostContinue ==
    /\ stack = <<>>
    /\ last # NoCall
    /\ last' = NoCall
    /\ fb' = BlankFb
    /\ UNCHANGED <<startVars, gInPatch, cacheVars, device, hstate, stack,
                   everUnavailable>>

\* Between calls the user may change the monitor's settings.
ChangeDevice ==
    /\ startPc \in {"done", "bailed"}
    /\ stack = <<>>
    /\ last = NoCall
    /\ device' \in Devices \ {device}
    /\ UNCHANGED <<startVars, gInPatch, cacheVars, hstate, fb, stack, last,
                   everUnavailable>>

----------------------------------------------------------------------------

Init ==
    /\ startPc = "gestalt"
    /\ trapTable = [t \in {kFillCRgnTrap, kEraseRectTrap} |->
                      IF t = kFillCRgnTrap THEN "ROM_FillCRgn"
                      ELSE "ROM_EraseRect"]
    /\ gOldFillCRgn = NULL
    /\ gOldEraseRect = NULL
    /\ gInPatch = 0
    /\ gScreenBase = 0
    /\ gScreenRowBytes = 0
    /\ gScreenWidth = 0
    /\ gScreenHeight = 0
    /\ gScreenReady = 0
    /\ device \in Devices
    /\ hstate = InitHState
    /\ fb = BlankFb
    /\ stack = <<>>
    /\ last = NoCall
    /\ everUnavailable = FALSE

Next ==
    \/ StartGestalt
    \/ StartGetTrap
    \/ StartSetTrap
    \/ HostCall
    \/ HostCallROM
    \/ InnerCallStep
    \/ OrigReturn
    \/ Guard
    \/ RenderBegin
    \/ RenderTile
    \/ RenderDraw
    \/ RenderRestore
    \/ Exit
    \/ HostContinue
    \/ ChangeDevice

Spec == Init /\ [][Next]_vars

----------------------------------------------------------------------------
(* Properties *)

OnStack == { stack[i] : i \in 1..Len(stack) }
Returned == { last[i] : i \in 1..Len(last) }
Frames == OnStack \cup Returned

\* the frames of top-level intercepted calls in which the guard has run
Guarded == { f \in Frames : f.guardEvals > 0 }

\* the value the surface holds at pixel p, through the cached parameters
Surface(p) == fb[WordOf(gScreenBase, gScreenRowBytes, p[1], p[2])]

BoxW(f) == f.area.rgnBBox.right - f.area.rgnBBox.left
BoxH(f) == f.area.rgnBBox.bottom - f.area.rgnBBox.top

\* C1: a call entered while another intercepted call is in progress only
\* invokes the saved original: it never evaluates the guard and never
\* invokes a renderer, so an outermost call evaluates the guard at most once
\* and invokes a renderer at most once.
C1_Reentrancy ==
    /\ \A i \in 1..Len(stack) :
          i > 1 => /\ stack[i].pc = "origN"
                   /\ stack[i].origCalls = 1
                   /\ stack[i].guardEvals = 0
                   /\ stack[i].renders = 0
                   /\ stack[i].written = {}
    /\ \A f \in Frames : f.guardEvals <= 1 /\ f.renders <= 1

\* a second nested call, to the other trap, after an earlier one returned
C1_Witness ==
    /\ Len(stack) >= 2
    /\ stack[1].innerReturned
    /\ stack[2].fn # stack[1].fn
    /\ stack[2].pc = "origN"

\* C2: when a renderer has returned, every handle has the state it had
\* just before the renderer was called, also after an exit taken once the
\* map and the data were locked.
C2_LockSymmetry ==
    \A f \in Frames :
        f.pc \in {"exit"} => \A h \in Handles : hstate[h] = f.hEntry[h]

\* the renderer left early, after it had locked the map and the data
C2_Witness ==
    \E f \in OnStack :
        /\ f.pc = "exit"
        /\ f.rpat = "depth4"
        /\ f.taken = {MapH("depth4"), DataH("depth4")}
        /\ \A h \in Handles : hstate[h] = f.hEntry[h]

\* C3: whenever no intercepted call is in progress the recursion flag is
\* clear.
C3_FlagClearAfterReturn == stack = <<>> => gInPatch = 0

\* a top-level call has returned after a full repaint
C3_Witness ==
    /\ stack = <<>>
    /\ \E f \in Returned : f.pc = "exit" /\ f.written # {}
    /\ gInPatch = 0

\* C4: every intercepted call invokes the saved original once, with the
\* arguments it received; in a top-level call the original has returned
\* before the guard is evaluated and before a renderer writes a pixel.
C4_OriginalFirst ==
    \A f \in Frames :
        /\ f.origCalls = 1
        /\ f.origArgs = [area |-> f.area, pp |-> f.pp]
        /\ f.callee = (IF f.fn = "FillCRgn" THEN "ROM_FillCRgn"
                       ELSE "ROM_EraseRect")
        /\ (f.guardEvals > 0 \/ f.renders > 0 \/ f.written # {}
            \/ f.pc \notin {"orig", "origN"}) => f.origDone

\* a region fill whose renderer has written pixels
C4_Witness ==
    \E f \in OnStack :
        /\ f.fn = "FillCRgn" /\ f.area.shape = "L"
        /\ f.written # {} /\ f.origDone /\ f.origCalls = 1

\* the conditions of the guard, as the specification lists them
SizeWithin(f, lo) ==
    /\ lo <= BoxW(f) /\ BoxW(f) <= 250
    /\ lo <= BoxH(f) /\ BoxH(f) <= 250

SharesPixel(box, win) ==
    \E x \in win.left..(win.right - 1), y \in win.top..(win.bottom - 1) :
        PtInRect(x, y, box)

ClearOfWindows(f) ==
    \A i \in 1..(Len(f.wins) - 1) :
        f.wins[i].hasStruc
            => ~SharesPixel(f.area.rgnBBox, f.wins[i].strucRgn.rgnBBox)

AllConditions(f) ==
    /\ gScreenReady # 0
    /\ f.port = WMgrCPort
    /\ SizeWithin(f, IF f.fn = "FillCRgn" THEN 4 ELSE 2)
    /\ f.area.rgnBBox.top >= MBarHeight
    /\ ClearOfWindows(f)

\* C5: a renderer is invoked only if the surface cache is ready, the port
\* is the Window Manager port, the size is within bounds, the area lies
\* below the menu bar and it meets no window but the last; otherwise the
\* call leaves the surface as the original left it.
C5_GuardNecessity ==
    \A f \in Guarded :
        /\ f.renders > 0 => AllConditions(f)
        /\ ~AllConditions(f)
              => f.renders = 0 /\ f.written = {} /\ fb = f.fbOrig

\* an area 300 wide: the original's output stays as it is
C5_Witness ==
    \E f \in Returned :
        /\ f.guardEvals = 1 /\ BoxW(f) = 300 /\ f.port = WMgrCPort
        /\ gScreenReady # 0
        /\ f.renders = 0 /\ fb = f.fbOrig /\ fb # BlankFb

OtherConditions(f) ==
    /\ gScreenReady # 0
    /\ ~f.area.nil
    /\ f.port = WMgrCPort
    /\ f.area.rgnBBox.top >= MBarHeight
    /\ ClearOfWindows(f)
    /\ f.fn = "EraseRect" => f.bk # NULL

\* C6: with every other condition satisfied, the region form repairs
\* exactly when width and height are both in 4..250, and the rectangle
\* form exactly when both are in 2..250.
C6_SizeBounds ==
    \A f \in Guarded :
        OtherConditions(f) =>
            (f.renders = 1 <=> SizeWithin(f, IF f.fn = "FillCRgn" THEN 4
                                             ELSE 2))

\* a rectangle 2 wide and 250 high is repaired
C6_Witness ==
    \E f \in Returned :
        /\ f.fn = "EraseRect" /\ BoxW(f) = 2 /\ BoxH(f) = 250
        /\ OtherConditions(f) /\ f.renders = 1 /\ f.written # {}

\* C7 as stated: once a call has found the capability unavailable, no
\* intercepted call invokes a renderer any more.
C7_UnavailableIsPermanent ==
    everUnavailable => \A f \in Frames : f.renders = 0

\* C7, amended: a call that finds the capability unavailable invokes no
\* renderer and leaves readiness false and the cache untouched; nothing is
\* remembered of the failure, so any call that finds a 32-bit pixel map
\* fills the cache, also after earlier failures.
C7_UnavailableThisCallOnly ==
    [][ (stack # <<>> /\ Top.pc = "guard" /\ gScreenReady = 0)
          => IF DeviceIs32
             THEN /\ gScreenReady' = 1
                  /\ gScreenBase' = device.baseAddr
             ELSE /\ gScreenReady' = 0
                  /\ UNCHANGED <<gScreenBase, gScreenRowBytes, gScreenWidth,
                                 gScreenHeight>>
                  /\ stack'[Len(stack')].renders = 0
                  /\ stack'[Len(stack')].pc = "exit" ]_vars

\* a call repaints although an earlier call found the capability unavailable
C7_Witness ==
    /\ everUnavailable
    /\ \E f \in Returned : f.renders = 1 /\ f.written # {}

\* the tile sample of surface pixel p: row (y mod H), column (x mod W)
ToroidalSample(pat, p) ==
    pat.data[(p[2] % (pat.bounds.bottom - pat.bounds.top))
                 * (pat.rowBytes % 16384)
             + (p[1] % (pat.bounds.right - pat.bounds.left)) + 1]

\* frames whose renderer has finished its loops
Drawn == { f \in Frames : f.pc \in {"r_restore", "exit"} /\ f.taken # {}
                          /\ TableH(f.rpat) \in f.taken }

\* C8: every pixel (x, y) a renderer has written holds the colour of the
\* tile sample at row (y mod H), column (x mod W), wherever the target area
\* begins.
C8_ToroidalTiling ==
    \A f \in Drawn : \A p \in f.written :
        Surface(p) = Pixel32(PixPatOf(f.rpat).ctTable[
                                 ToroidalSample(PixPatOf(f.rpat), p) + 1])

\* the 2 x 2 tile has wrapped in both directions at pixel (2, 2)
C8_Witness ==
    \E f \in Drawn :
        /\ f.rpat = "tile" /\ <<2, 2>> \in f.written /\ <<1, 2>> \in f.written
        /\ Surface(<<2, 2>>) # Surface(<<1, 2>>)

\* the high byte of each channel, packed red, green, blue
HighBytes(cs) ==
    (cs.red \div 256) * 65536 + (cs.green \div 256) * 256 + (cs.blue \div 256)

Channels == {0, 1, 255, 256, 257, 4660, 32767, 32768, 43981, 65280, 65535}

\* the conversion on every entry with channels among Channels
ConversionOnChannels ==
    \A r \in Channels, g \in Channels, b \in Channels :
        /\ Pixel32(RGB(r, g, b)) = HighBytes(RGB(r, g, b))
        /\ Pixel32(RGB(r, g, b)) < 2 ^ 24

\* C9: the value written for a palette entry is the high byte of each of
\* its channels packed red, green, blue, with a zero top byte.
C9_ColourConversion ==
    /\ ConversionOnChannels
    /\ \A f \in Drawn : \A p \in f.written :
          LET cs == PixPatOf(f.rpat).ctTable[
                        PixVal(PixPatOf(f.rpat), p[1], p[2]) + 1]
          IN  Surface(p) = HighBytes(cs) /\ Surface(p) < 2 ^ 24

\* a pixel written from the entry (0x1234, 0xABCD, 0x00FF) holds 0x12AB00
C9_Witness ==
    \E f \in Drawn : \E p \in f.written :
        /\ PixPatOf(f.rpat).ctTable[PixVal(PixPatOf(f.rpat), p[1], p[2]) + 1]
              = RGB(4660, 43981, 255)
        /\ Surface(p) = 1223424

\* C10: the region form writes exactly the pixels of the clipped bounding
\* box that pass the membership test, a subset of what the rectangle form
\* writes over the bounding box, each with the value the rectangle form
\* writes there; the other pixels keep what the original left.
C10_RegionWithinRect ==
    \A f \in Drawn :
        f.fn = "FillCRgn" =>
            LET box == RectPixels(f.area.rgnBBox)
                asRect == WritePixels(f.fbOrig, PixPatOf(f.rpat), box)
            IN  /\ f.written \subseteq box
                /\ f.written = { p \in box : PtInRgn(p[1], p[2], f.area) }
                /\ \A p \in f.written :
                      Surface(p) = asRect[WordOf(gScreenBase, gScreenRowBytes,
                                                 p[1], p[2])]
                /\ \A p \in box \ f.written :
                      Surface(p) = f.fbOrig[WordOf(gScreenBase,
                                                   gScreenRowBytes,
                                                   p[1], p[2])]

\* an L-shaped region: some pixels of its bounding box are left alone
C10_Witness ==
    \E f \in Drawn :
        /\ f.fn = "FillCRgn" /\ f.area.shape = "L"
        /\ f.written # {}
        /\ f.written # RectPixels(f.area.rgnBBox)

\* a pattern the renderers support: a present type-1 pattern with its pixel
\* map and pixel data, a non-empty 8-bit tile and a colour table
ValidPattern(id) ==
    /\ id # NULL
    /\ PixPatOf(id).present /\ PixPatOf(id).patType = 1
    /\ PixPatOf(id).hasMap /\ PixPatOf(id).hasData
    /\ PixPatOf(id).bounds.right > PixPatOf(id).bounds.left
    /\ PixPatOf(id).bounds.bottom > PixPatOf(id).bounds.top
    /\ PixPatOf(id).pixelSize = 8
    /\ PixPatOf(id).hasTable

\* the pixels of the cached surface
SurfacePixels == (0..(gScreenWidth - 1)) \X (0..(gScreenHeight - 1))

\* what the original left at pixel p
OrigSurface(f, p) ==
    f.fbOrig[WordOf(gScreenBase, gScreenRowBytes, p[1], p[2])]

PureRed == 255 * 65536

\* C11: after a top-level PatchedFillCRgn call that satisfies the guard with
\* a valid 8-bit type-1 tile, every surface pixel inside the region holds
\* the converted colour of its tile sample (pure red when every sample maps
\* to pure red) and every surface pixel outside the region holds what the
\* original produced.
C11_EndToEndRepaint ==
    \A f \in Returned :
        (/\ f.fn = "FillCRgn" /\ f.pc = "exit"
         /\ ~f.area.nil /\ AllConditions(f) /\ ValidPattern(f.pp))
        => \A p \in SurfacePixels :
              IF PtInRgn(p[1], p[2], f.area)
              THEN /\ Surface(p) = HighBytes(PixPatOf(f.pp).ctTable[
                                       ToroidalSample(PixPatOf(f.pp), p) + 1])
                   /\ f.pp = "red" => Surface(p) = PureRed
              ELSE Surface(p) = OrigSurface(f, p)

\* a 4 x 4 square wholly inside the surface the device reports, repainted
\* pure red over what the original drew; the rest of the surface untouched
C11_Witness ==
    \E f \in Returned :
        /\ f.fn = "FillCRgn" /\ f.pc = "exit" /\ f.pp = "red"
        /\ f.area = MkRgn(GoodBox, "rect") /\ AllConditions(f)
        /\ gScreenWidth = device.bounds.right
        /\ gScreenHeight = device.bounds.bottom
        /\ GoodBox.right < gScreenWidth /\ GoodBox.bottom <= gScreenHeight
        /\ \A p \in SurfacePixels :
              IF PtInRect(p[1], p[2], GoodBox)
              THEN Surface(p) = PureRed /\ OrigSurface(f, p) = Garbage
              ELSE Surface(p) = Blank

\* a pattern the renderers do not support, as the specification lists the
\* cases: handle absent, type not 1, pixel map or pixel data absent, tile
\* depth not 8, palette absent
UnsupportedPattern(id) ==
    IF id = NULL THEN TRUE
    ELSE \/ ~PixPatOf(id).present
         \/ PixPatOf(id).patType # 1
         \/ ~PixPatOf(id).hasMap
         \/ ~PixPatOf(id).hasData
         \/ PixPatOf(id).pixelSize # 8
         \/ ~PixPatOf(id).hasTable

\* frames whose renderer was invoked with an unsupported pattern
Unsupported == { f \in Frames : f.renders = 1 /\ UnsupportedPattern(f.rpat) }

\* such a renderer never reaches its loops and writes no pixel
C12_NoPixelWritten ==
    \A f \in Unsupported :
        /\ f.pc \in {"r_begin", "r_tile", "exit"}
        /\ f.written = {}
        /\ fb = f.fbOrig

\* a step of such a renderer changes nothing a later call reads: not the
\* surface, the surface cache, the flag or the trap table, and when it
\* returns the handles are as they were
C12_NoTraceLeft ==
    (/\ stack # <<>>
     /\ Top.pc \in {"r_begin", "r_tile"}
     /\ UnsupportedPattern(Top.rpat))
    => /\ fb' = fb
       /\ UNCHANGED <<gInPatch, cacheVars, startVars, device>>
       /\ stack'[Len(stack')].pc \in {"r_tile", "exit"}
       /\ stack'[Len(stack')].pc = "exit" => hstate' = Top.hEntry

\* C12: a renderer given an unsupported pattern (handle absent, type not 1,
\* pixel map or pixel data absent, tile depth not 8, palette absent) writes
\* no surface pixel in that call, and the failure leaves nothing behind that
\* a later call could see, so a later call with a valid pattern is repainted
\* as any other.
C12_UnsupportedPatternNoOp ==
    []C12_NoPixelWritten /\ [][C12_NoTraceLeft]_vars

\* a call whose pattern has no palette has returned: the renderer had
\* locked two handles, nothing was written over the original's output, and
\* the program's state is what it was before the call
C12_Witness ==
    /\ stack = <<>>
    /\ gInPatch = 0
    /\ \E f \in Returned :
          /\ f.renders = 1 /\ f.rpat = "noTable"
          /\ f.taken # {} /\ f.written = {}
          /\ fb = f.fbOrig /\ fb # BlankFb
          /\ hstate = f.hEntry

\* frames whose renderer has returned
RendererReturned == { f \in Frames : f.renders = 1 /\ f.pc = "exit" }

\* the pattern fails a check on the handles themselves: pattern absent,
\* type not 1, pixel map or pixel data absent
FailsHandleChecks(id) ==
    IF id = NULL THEN TRUE
    ELSE \/ ~PixPatOf(id).present
         \/ PixPatOf(id).patType # 1
         \/ ~PixPatOf(id).hasMap
         \/ ~PixPatOf(id).hasData

\* C13 as stated: at every early return caused by a validation check
\* (pattern absent, type not 1, pixel data or pixel map absent, tile depth
\* not 8, palette absent) no handle has been locked by this call.
C13_ValidationBeforeLocking ==
    \A f \in RendererReturned :
        UnsupportedPattern(f.rpat) => f.taken = {}

\* C13, amended: the returns caused by an absent pattern, a type other than
\* 1 or an absent pixel map or pixel data happen before any lock; the
\* returns caused by the tile's size or depth or by an absent palette happen
\* after the pixel map and the pixel data were locked and before the palette
\* is, and both are back in their prior state at the return.
C13_HandleChecksBeforeLocking ==
    \A f \in RendererReturned :
        IF FailsHandleChecks(f.rpat) THEN f.taken = {}
        ELSE IF ~ValidPattern(f.rpat)
             THEN /\ f.taken = {MapH(f.rpat), DataH(f.rpat)}
                  /\ hstate[MapH(f.rpat)] = f.hEntry[MapH(f.rpat)]
                  /\ hstate[DataH(f.rpat)] = f.hEntry[DataH(f.rpat)]
                  /\ hstate[TableH(f.rpat)] = f.hEntry[TableH(f.rpat)]
             ELSE f.taken = {MapH(f.rpat), DataH(f.rpat), TableH(f.rpat)}

\* the renderer has returned because the palette is absent: by then it had
\* locked the pixel map and the pixel data, and not the palette
C13_Witness ==
    \E f \in OnStack :
        /\ f.renders = 1 /\ f.pc = "exit" /\ f.rpat = "noTable"
        /\ MapH("noTable") \in f.taken /\ DataH("noTable") \in f.taken
        /\ TableH("noTable") \notin f.taken

\* the rectangle meets the structure region of an entry that is not the
\* last one and has a structure region
MeetsWindow(box, wins) ==
    \E i \in 1..(Len(wins) - 1) :
        wins[i].hasStruc /\ SharesPixel(box, wins[i].strucRgn.rgnBBox)

\* every window list of up to three entries
SomeWindows == {WinA, WinBare, Desk}
WindowLists ==
    {<<>>} \cup { <<a>> : a \in SomeWindows }
           \cup { <<a, b>> : a \in SomeWindows, b \in SomeWindows }
           \cup { <<a, b, c>> : a \in SomeWindows, b \in SomeWindows,
                                c \in SomeWindows }

\* the function on every such list and every area of the context calls
WindowExclusionOnLists ==
    \A box \in ContextBoxes \cup {NegBox}, wins \in WindowLists :
        /\ IsRectInAnyWindowStruc(box, wins) <=> MeetsWindow(box, wins)
        /\ Len(wins) <= 1 => ~IsRectInAnyWindowStruc(box, wins)

\* everything the guard asks for but the windows
AllButWindows(f) ==
    /\ gScreenReady # 0
    /\ ~f.area.nil
    /\ f.port = WMgrCPort
    /\ SizeWithin(f, IF f.fn = "FillCRgn" THEN 4 ELSE 2)
    /\ f.area.rgnBBox.top >= MBarHeight
    /\ f.fn = "EraseRect" => f.bk # NULL

\* C14: IsRectInAnyWindowStruc is true exactly when the rectangle meets the
\* structure region of an entry that is not the last and has a structure
\* region: the last entry is never tested, an empty or single-entry list
\* never suppresses, and entries without a structure region are passed over.
C14_WindowExclusion ==
    /\ WindowExclusionOnLists
    /\ \A f \in Guarded :
          AllButWindows(f) =>
              (f.renders = 0 <=> MeetsWindow(f.area.rgnBBox, f.wins))

\* the walk passed an entry without a structure region and found the window
\* behind it: the call is suppressed, everything else being in favour
C14_Witness ==
    \E f \in Guarded :
        /\ AllButWindows(f)
        /\ f.wins = <<WinBare, WinA, Desk>>
        /\ f.area.rgnBBox = ShiftedBox
        /\ f.renders = 0 /\ f.pc = "exit"

\* a call of EnsureScreenInfo is the first thing the guard does
EnsureScreenInfoCalled == stack # <<>> /\ Top.pc = "guard"

\* one step of the program, as the cache sees it
CacheStep ==
    /\ gScreenReady # 0 =>
          /\ UNCHANGED cacheVars
          /\ EnsureScreenInfoCalled =>
                /\ everUnavailable' = everUnavailable
                /\ stack'[Len(stack')].guardEvals = 1
    /\ gScreenReady = 0 =>
          IF EnsureScreenInfoCalled /\ DeviceIs32
          THEN /\ gScreenReady' # 0
               /\ gScreenBase' = device.baseAddr
               /\ gScreenRowBytes' = device.rowBytes % (2 ^ 14)
               /\ gScreenWidth' = device.bounds.right - device.bounds.left
               /\ gScreenHeight' = device.bounds.bottom - device.bounds.top
          ELSE /\ UNCHANGED cacheVars
               /\ EnsureScreenInfoCalled => everUnavailable'

\* C15: readiness is monotonic.  Once EnsureScreenInfo has succeeded every
\* later call returns true whatever the device reports, and the cached base
\* address, row stride (rowBytes masked to its low 14 bits), width and
\* height never change again; a failed call leaves readiness false and the
\* cached fields unchanged.
C15_CacheMemoized == [][CacheStep]_vars

\* a repaint through the cached parameters although the device no longer
\* has a 32-bit pixel map
C15_Witness ==
    /\ gScreenReady # 0
    /\ ~DeviceIs32
    /\ ~everUnavailable
    /\ \E f \in Returned : f.renders = 1 /\ f.written # {}

\* the bounding rectangle intersected with the surface bounds
BoxOnSurface(f) ==
    { p \in SurfacePixels : PtInRect(p[1], p[2], f.area.rgnBBox) }

\* C16: every pixel (x, y) a renderer writes has 0 <= x < width and
\* 0 <= y < height of the cached surface; the area touched is the bounding
\* rectangle intersected with the surface bounds (all of it in the rectangle
\* form, its members of the region in the region form), nothing is written
\* when that intersection is empty, and no word of video memory outside the
\* intersection changes: edges are clamped, never wrapped.
C16_Clipping ==
    \A f \in Drawn :
        /\ \A p \in f.written :
              /\ 0 <= p[1] /\ p[1] < gScreenWidth
              /\ 0 <= p[2] /\ p[2] < gScreenHeight
        /\ f.written = IF f.fn = "EraseRect" THEN BoxOnSurface(f)
                       ELSE { p \in BoxOnSurface(f) :
                                  PtInRgn(p[1], p[2], f.area) }
        /\ BoxOnSurface(f) = {} => f.written = {} /\ fb = f.fbOrig
        /\ \A i \in VramWords :
              fb[i] # f.fbOrig[i] =>
                  \E p \in BoxOnSurface(f) :
                      WordOf(gScreenBase, gScreenRowBytes, p[1], p[2]) = i

\* an area that starts left of the surface and ends right of it and below
\* it: what is written is the surface from the area's top down
C16_Witness ==
    \E f \in Drawn :
        /\ f.area.rgnBBox = NegBox
        /\ NegBox.left < 0
        /\ gScreenWidth < NegBox.right /\ gScreenHeight < NegBox.bottom
        /\ f.written = (0..(gScreenWidth - 1))
                          \X (NegBox.top..(gScreenHeight - 1))
        /\ f.written # {}

\* an intercepted call is entered, or returns to its caller
CallEntered == Len(stack') > Len(stack)
CallReturns == Len(stack') < Len(stack)

\* C17 as stated: every intercepted call, top-level or nested, leaves
\* through the one exit that makes the transition back to Idle.
C17_EveryCallExitsToIdle ==
    [][CallReturns => Top.pc = "exit" /\ gInPatch' = 0]_vars

\* the flag is set for as long as an intercepted call is in progress
InPatchWhileInside == stack # <<>> => gInPatch = 1

\* entry sets the flag; the outermost call leaves through the exit that
\* clears it, a nested call returns right after the original and leaves it
ExitByDepth ==
    /\ CallEntered => gInPatch' = 1
    /\ CallReturns =>
          IF Len(stack) = 1
          THEN Top.pc = "exit" /\ gInPatch' = 0
          ELSE Top.pc = "origN" /\ gInPatch' = gInPatch

\* C17, amended: every top-level intercepted call leaves through the one
\* exit that makes the transition back to Idle, on every path; a nested
\* call returns right after the original without touching the flag, so the
\* state stays InPatch until the outermost call leaves.
C17_TopLevelExitsToIdle ==
    []InPatchWhileInside /\ [][ExitByDepth]_vars

\* a nested call has returned and the outermost call is still inside its
\* original: the flag is still set
C17_Witness ==
    /\ Len(stack) = 1
    /\ stack[1].innerReturned
    /\ stack[1].pc = "orig"
    /\ gInPatch = 1

----------------------------------------------------------------------------
(* Run to completion *)

\* the original of the call at depth d returns
OrigReturnAt(d) == Len(stack) = d /\ OrigReturn

\* One thread of control: a step of the patch that can be taken is taken.
\* The saved original returns: whatever calls it makes itself, it does not
\* go on making them for ever.
PatchStep ==
    Guard \/ RenderBegin \/ RenderTile \/ RenderDraw \/ RenderRestore \/ Exit

Fairness ==
    /\ WF_vars(PatchStep)
    /\ \A d \in 1..MaxDepth : SF_vars(OrigReturnAt(d))

\* The calls of the host in the runs checked for completion: every pattern
\* outcome on an area that is repainted, and every area behind a window
\* list of three entries.
LiveCalls ==
    { c \in RenderCalls :
          /\ c.area.rgnBBox = GoodBox
          /\ (IF c.fn = "FillCRgn" THEN c.pp ELSE c.bk)
                \in {"tile", "noTable", "type0", NULL} }
    \cup
    { c \in ContextCalls :
          c.port = WMgrCPort /\ c.wins = <<WinBare, WinA, Desk>> }

LiveHostCall == HostCallFrom(LiveCalls)

LiveNext ==
    \/ StartGestalt
    \/ StartGetTrap
    \/ StartSetTrap
    \/ LiveHostCall
    \/ InnerCallStep
    \/ OrigReturn
    \/ Guard
    \/ RenderBegin
    \/ RenderTile
    \/ RenderDraw
    \/ RenderRestore
    \/ Exit
    \/ HostContinue

LiveSpec == Init /\ [][LiveNext]_vars /\ Fairness

\* lines 326-334: the entries the walk looks at, in order
RECURSIVE WindowVisits(_, _, _)
WindowVisits(r, wins, i) ==
    IF i > Len(wins) THEN <<>>
    ELSE IF i = Len(wins) THEN <<i>>
    ELSE IF wins[i].hasStruc /\ RectInRgn(r, wins[i].strucRgn) THEN <<i>>
    ELSE <<i>> \o WindowVisits(r, wins, i + 1)

\* lines 173 and 179 / 278 and 283: the pixels the loops come to, in order
LoopVisits(box) ==
    LET c == ClipToScreen(box)
        w == c.right - c.left
        h == c.bottom - c.top
    IN  IF c.left < c.right /\ c.top < c.bottom
        THEN [k \in 1..(w * h) |->
                 <<c.left + ((k - 1) % w), c.top + ((k - 1) \div w)>>]
        ELSE <<>>

NoRepeat(s) == \A i, j \in 1..Len(s) : s[i] = s[j] => i = j

\* the walk on every list of up to three entries
WalkVisitsOnce ==
    \A box \in ContextBoxes \cup {NegBox}, wins \in WindowLists :
        /\ NoRepeat(WindowVisits(box, wins, 1))
        /\ Len(WindowVisits(box, wins, 1)) <= Len(wins)

\* guard and renderer work at one level only; each window entry and each
\* pixel of the clipped area visited once
BoundedWork ==
    /\ \A i \in 1..Len(stack) : i > 1 => stack[i].pc = "origN"
    /\ WalkVisitsOnce
    /\ \A f \in Guarded :
          ~f.area.nil => /\ NoRepeat(WindowVisits(f.area.rgnBBox, f.wins, 1))
                         /\ Len(WindowVisits(f.area.rgnBBox, f.wins, 1))
                               <= Len(f.wins)
    /\ \A f \in Drawn :
          LET v == LoopVisits(f.area.rgnBBox)
          IN  /\ NoRepeat(v)
              /\ { v[k] : k \in 1..Len(v) } = BoxOnSurface(f)
              /\ f.written \subseteq { v[k] : k \in 1..Len(v) }

\* C18: given that the saved original returns and the window list is
\* finite, every intercepted call eventually returns to its caller (the
\* outermost one does, and with it the calls nested in it); guard and renderer work happens at one level of nesting only,
\* the window walk looks at each entry at most once and the render loops
\* come to each pixel of the clipped area exactly once.
C18_RunToCompletion ==
    /\ []BoundedWork
    /\ (stack # <<>>) ~> (stack = <<>>)

\* a top-level call has returned after nested calls and a full repaint
C18_Witness ==
    /\ stack = <<>>
    /\ \E f \in Returned :
          /\ f.pc = "exit" /\ f.innerReturned
          /\ f.written # {}
          /\ Len(WindowVisits(f.area.rgnBBox, f.wins, 1)) = Len(f.wins)
          /\ Len(LoopVisits(f.area.rgnBBox)) > 1

----------------------------------------------------------------------------
(* Installation *)

\* the trap table before _start runs
TableBefore ==
    [t \in {kFillCRgnTrap, kEraseRectTrap} |->
        IF t = kFillCRgnTrap THEN "ROM_FillCRgn" ELSE "ROM_EraseRect"]

\* the capability check passes exactly without error at version 0x200 or more
GestaltCheck ==
    \A g \in GestaltResults :
        GestaltOK(g) <=> (~g.err /\ g.version >= 512)

\* an interceptor in the table has its saved original: the entry that was
\* there before, not NULL and not the interceptor; after a failed
\* capability check nothing is patched and nothing saved
InstalledImpliesSaved ==
    /\ GestaltCheck
    /\ \A fn \in Fns :
          /\ trapTable[Selector(fn)] \in {TableBefore[Selector(fn)], PatchOf(fn)}
          /\ trapTable[Selector(fn)] = PatchOf(fn) =>
                /\ SavedOriginal(fn) = TableBefore[Selector(fn)]
                /\ SavedOriginal(fn) # NULL
                /\ SavedOriginal(fn) # PatchOf(fn)
    /\ startPc = "bailed" =>
          /\ trapTable = TableBefore
          /\ gOldFillCRgn = NULL /\ gOldEraseRect = NULL

\* the step that writes a table entry finds the entry already saved, and a
\* failed capability check is followed by no step of the installation
SaveBeforeInstall ==
    /\ \A fn \in Fns :
          trapTable'[Selector(fn)] # trapTable[Selector(fn)] =>
              /\ SavedOriginal(fn) = trapTable[Selector(fn)]
              /\ trapTable'[Selector(fn)] = PatchOf(fn)
              /\ UNCHANGED <<gOldFillCRgn, gOldEraseRect>>
    /\ startPc = "bailed" => UNCHANGED startVars

\* C19: for each of the two selectors _start saves the current table entry
\* before it installs the interceptor in that slot, so an interceptor that
\* can be reached through the table always has its saved original, the
\* entry from before the installation; when the capability check fails
\* neither selector is patched and both entries stay as they were.
C19_InstallationOrdering ==
    []InstalledImpliesSaved /\ [][SaveBeforeInstall]_vars

\* half-way through: FillCRgn is patched and has its original, EraseRect
\* is neither saved nor patched yet
C19_Witness ==
    /\ trapTable[kFillCRgnTrap] = "PatchedFillCRgn"
    /\ gOldFillCRgn = "ROM_FillCRgn"
    /\ trapTable[kEraseRectTrap] = "ROM_EraseRect"
    /\ gOldEraseRect = NULL

====
